---- MODULE Spec2Model ----
(***************************************************************************)
(* A model of pyroomacoustics/stft/stft.py: the STFT engine (class STFT).  *)
(*                                                                         *)
(* The engine object is the record `self`; every method of the class is an *)
(* operator that takes the object (and the call's arguments) and returns   *)
(* the object after the call, the exception raised ("none" when the call   *)
(* returned) and the returned value.  An exception raised in the middle of *)
(* a method leaves the assignments made before it in place, as in Python.  *)
(*                                                                         *)
(* Samples are integers.  A spectrum of a length-n real block is           *)
(* represented by the element of Z[x]/(x^n - 1) (a length-n coefficient    *)
(* vector) whose values at the n-th roots of unity are its bins: the       *)
(* forward real FFT maps a block to the polynomial with the block as       *)
(* coefficients, the inverse maps it back, and the bin-wise product of two *)
(* spectra is the product in that ring (circular convolution).  The shape  *)
(* of a spectrum array (its bin count) is carried beside the data.         *)
(*                                                                         *)
(* The engine is mono (channels = 1, the constructor's default), so every  *)
(* np.squeeze drops the channel axis; it also drops a sample axis of       *)
(* length 1, leaving a 0-d array that cannot be sliced (IndexError).       *)
(***************************************************************************)
EXTENDS Integers, Sequences, FiniteSets, TLC

VARIABLES
  self,    \* the STFT object
  pre,     \* the object as it was before the last call
  ret,     \* the last call: its name, argument, exception and returned value
  filt,    \* the last set_filter call: its coefficients and outcome
  xin,     \* the samples analysis took in (padding included) since the state was last zeroed
  Xhist,   \* the frames analysis produced from them, in order
  yout,    \* the samples synthesis returned since the state was last zeroed
  held,    \* the returned arrays the caller has kept, as the caller sees them
  steps    \* the number of calls made

vars == <<self, pre, ret, filt, xin, Xhist, yout, held, steps>>

----------------------------------------------------------------------------
(* Bounds *)

\* largest number of samples fed to a streaming engine between two resets
MaxStream == 6
\* largest number of calls made on a streaming engine
MaxStreamCalls == 6
\* largest number of frames in one batch call
MaxBatchFrames == 2
\* largest number of time-domain filter coefficients
MaxFilterLen == 2
\* largest zero padding asked for at either end
MaxPad == 2
\* largest number of samples fed to a filtering engine
MaxFilterStream == 4
\* largest number of set_filter calls on one engine
MaxConfigCalls == 2
\* largest number of calls on one engine in any order
MaxCalls == 3
\* longest input of an analysis call made in any order
MaxLen == 6
\* largest frame count of frequency data handed to process or synthesis
MaxFreqFrames == 3
\* largest number of calls on one multi-channel engine
MaxChannelCalls == 2
\* largest frame size and hop size tried at construction
MaxN == 4
MaxHop == 5
\* largest number of reallocating calls after a construction
MaxReallocations == 2
\* largest number of calls on one engine that filters frames
MaxProcessCalls == 3
\* largest number of synthesis calls on one reconstructing engine, and of
\* frames in one call
MaxOverlapCalls == 2
MaxOverlapFrames == 2
\* largest number of calls on one engine whose input buffer is watched, and
\* of samples in one analysis call
MaxBufferCalls == 4
MaxChunk == 3

----------------------------------------------------------------------------
(* Sequences as numpy 1-d arrays *)

None == <<>>

Min(a, b) == IF a < b THEN a ELSE b

\* ceil(a / b) for a >= 0, b > 0 (int(np.ceil(a / b)) under true division)
CeilDiv(a, b) == (a + b - 1) \div b

Zeros(n) == [i \in 1..n |-> 0]

\* s[a:b] for 0 <= a, with numpy's clamping of the stop to the length
Slice(s, a, b) == SubSeq(s, a + 1, Min(b, Len(s)))

\* s[a:a+len(v)] = v
SetSlice(s, a, v) ==
  [i \in 1..Len(s) |-> IF i > a /\ i <= a + Len(v) THEN v[i - a] ELSE s[i]]

VecAdd(u, v) == [i \in 1..Len(u) |-> u[i] + v[i]]

VecMul(u, v) == [i \in 1..Len(u) |-> u[i] * v[i]]

RECURSIVE SumTo(_, _)
SumTo(f, n) == IF n = 0 THEN 0 ELSE f[n] + SumTo(f, n - 1)

\* all sequences of length n over the set S
SeqsOf(S, n) == [1..n -> S]

----------------------------------------------------------------------------
(* Spectrum arrays: X, H, H_multi and frequency data handed in by a caller. *)
(* shape is the numpy shape; frames holds one coefficient vector per frame. *)

NoneArr == [isNone |-> TRUE, shape |-> <<>>, frames |-> <<>>]

Arr(shape, frames) == [isNone |-> FALSE, shape |-> shape, frames |-> frames]

\* np.squeeze(np.zeros((n, D))): one sequence for a mono engine (shape (n,)),
\* else one sequence per channel (shape (n, D))
Buf(n, D) == IF D = 1 THEN Zeros(n) ELSE [c \in 1..D |-> Zeros(n)]

\* np.squeeze(np.zeros((F, nbin, D))) for D > 1: shape (nbin, D) for one frame,
\* else (F, nbin, D); frames[f][c] is the spectrum of channel c in frame f
ZeroXChannels(F, nbin, nfft, D) ==
  Arr(IF F = 1 THEN <<nbin, D>> ELSE <<F, nbin, D>>,
      [f \in 1..F |-> [c \in 1..D |-> Zeros(nfft)]])

\* np.squeeze(np.zeros((F, nbin, 1))): one row is squeezed to shape (nbin,)
ZeroX(F, nbin, nfft) ==
  Arr(IF F = 1 THEN <<nbin>> ELSE <<F, nbin>>, [f \in 1..F |-> Zeros(nfft)])

\* np.fft.rfft(coeff, n): coeff cropped or zero-padded to n samples
rfft(coeff, n) ==
  [i \in 1..n |-> IF i <= Len(coeff) THEN coeff[i] ELSE 0]

\* bin-wise product of two spectra of the same transform length
SpecMul(a, b) ==
  LET n == Len(a)
      term(i) == [k \in 1..n |-> a[k] * b[((i - k) % n) + 1]]
  IN  [i \in 1..n |-> SumTo(term(i), n)]

----------------------------------------------------------------------------
(* The transform engine (class DFT of dft.py)                               *)

NoDFT ==
  [defined |-> FALSE, nfft |-> 0, D |-> 0, analysis_window |-> None,
   synthesis_window |-> None, x |-> <<>>]

DFT(nfft, D, analysis_window, synthesis_window) ==
  [defined |-> TRUE, nfft |-> nfft, D |-> D,
   analysis_window |-> analysis_window,
   synthesis_window |-> synthesis_window, x |-> Zeros(nfft)]

\* the block and the windows fit the transform length
dft_fits(d, v) ==
  /\ Len(v) = d.nfft
  /\ d.analysis_window = None \/ Len(d.analysis_window) = d.nfft
  /\ d.synthesis_window = None \/ Len(d.synthesis_window) = d.nfft

\* DFT.analysis: analysis window, then the forward real FFT
dft_analysis(d, v) ==
  IF d.analysis_window = None THEN v ELSE VecMul(d.analysis_window, v)

\* DFT.synthesis: the inverse real FFT, then the synthesis window
dft_synthesis(d, V) ==
  IF d.synthesis_window = None THEN V ELSE VecMul(V, d.synthesis_window)

----------------------------------------------------------------------------
(* Results of a call *)

Ok(s, v) == [self |-> s, exc |-> "none", val |-> v]

Raise(s, e) == [self |-> s, exc |-> e, val |-> <<>>]

----------------------------------------------------------------------------
(* Construction and configuration                                           *)

\* _make_buffers allocating an empty buffer where a length is negative
_make_buffers_clamped(s0) ==
  LET D == s0.num_channels
      s1 == [s0 EXCEPT !.n_state = s0.num_samples - s0.hop,
                       !.n_state_out = s0.nfft - s0.hop,
                       !.dft = DFT(s0.nfft, s0.num_channels,
                                   s0.analysis_window, s0.synthesis_window),
                       !.fft_in_buffer = Buf(s0.nfft, D)]
      s2 == [s1 EXCEPT !.x_p = Buf(s1.n_state, D)]
      s3 == [s2 EXCEPT !.y_p = Buf(s1.n_state_out, D), !.out = Buf(s1.hop, D)]
  IN  IF s1.nfft = 1 /\ D = 1 THEN Raise(s1, "IndexError")  \* views of a 0-d buffer
      ELSE IF s3.fixed_input
        THEN IF s3.num_frames = 0
               THEN Ok([s3 EXCEPT !.X = IF D = 1
                          THEN Arr(<<s3.nbin>>, <<Zeros(s3.nfft)>>)
                          ELSE Arr(<<s3.nbin, D>>, <<[c \in 1..D |-> Zeros(s3.nfft)]>>)],
                       <<>>)
               ELSE Ok([s3 EXCEPT
                          !.X = IF D = 1
                                  THEN ZeroX(s3.num_frames, s3.nbin, s3.nfft)
                                  ELSE ZeroXChannels(s3.num_frames, s3.nbin, s3.nfft, D),
                          !.dft_frames = DFT(s3.nfft, s3.num_frames,
                                             s3.analysis_window,
                                             s3.synthesis_window)], <<>>)
        ELSE Ok([s3 EXCEPT !.X = NoneArr, !.dft_frames = NoDFT], <<>>)

\* STFT._make_buffers
_make_buffers(s0) ==
  LET D == s0.num_channels
      s1 == [s0 EXCEPT !.n_state = s0.num_samples - s0.hop,
                       !.n_state_out = s0.nfft - s0.hop,
                       !.dft = DFT(s0.nfft, s0.num_channels,
                                   s0.analysis_window, s0.synthesis_window),
                       !.fft_in_buffer = Buf(s0.nfft, D)]
      s2 == [s1 EXCEPT !.x_p = Buf(s1.n_state, D)]
      s3 == [s2 EXCEPT !.y_p = Buf(s1.n_state_out, D), !.out = Buf(s1.hop, D)]
  IN  IF s1.nfft = 1 /\ D = 1 THEN Raise(s1, "IndexError")  \* views of a 0-d buffer
      ELSE IF s1.n_state < 0 THEN Raise(s1, "ValueError")   \* np.zeros((n_state, D))
      ELSE IF s1.n_state_out < 0 THEN Raise(s2, "ValueError")
      ELSE IF s3.fixed_input
        THEN IF s3.num_frames = 0
               THEN Ok([s3 EXCEPT !.X = IF D = 1
                          THEN Arr(<<s3.nbin>>, <<Zeros(s3.nfft)>>)
                          ELSE Arr(<<s3.nbin, D>>, <<[c \in 1..D |-> Zeros(s3.nfft)]>>)],
                       <<>>)
               ELSE Ok([s3 EXCEPT
                          !.X = IF D = 1
                                  THEN ZeroX(s3.num_frames, s3.nbin, s3.nfft)
                                  ELSE ZeroXChannels(s3.num_frames, s3.nbin, s3.nfft, D),
                          !.dft_frames = DFT(s3.nfft, s3.num_frames,
                                             s3.analysis_window,
                                             s3.synthesis_window)], <<>>)
        ELSE Ok([s3 EXCEPT !.X = NoneArr, !.dft_frames = NoDFT], <<>>)

\* STFT.__init__; kw_num_frames is <<>> when the keyword is absent, else <<F>>
__init__(N, hop, analysis_window, synthesis_window, channels, streaming, kw_num_frames) ==
  _make_buffers(
    [num_samples |-> N, num_channels |-> channels, hop |-> hop,
     analysis_window |-> analysis_window,
     synthesis_window |-> synthesis_window,
     nfft |-> N, nbin |-> N \div 2 + 1, zf |-> 0, zb |-> 0,
     H |-> NoneArr, H_multi |-> NoneArr,
     fixed_input |-> kw_num_frames # <<>>,
     num_frames |-> IF kw_num_frames # <<>> THEN kw_num_frames[1] ELSE 0,
     streaming |-> streaming,
     n_state |-> 0, n_state_out |-> 0, dft |-> NoDFT, dft_frames |-> NoDFT,
     fft_in_buffer |-> <<>>, x_p |-> <<>>, y_p |-> <<>>, out |-> <<>>,
     X |-> NoneArr])

\* zeros in the shape of a buffer of several channels
ZerosLike(a) == [c \in 1..Len(a) |-> Zeros(Len(a[c]))]

\* STFT.reset with D > 1 channels: [:, :] = 0. on each array in turn
reset_channels(s) ==
  LET s1 == [s EXCEPT !.fft_in_buffer = ZerosLike(s.fft_in_buffer)]
      s2 == [s1 EXCEPT !.x_p = ZerosLike(s.x_p)]
      s3 == [s2 EXCEPT !.y_p = ZerosLike(s.y_p)]
      s4 == [s3 EXCEPT !.X.frames =
                         [f \in 1..Len(s.X.frames) |-> ZerosLike(s.X.frames[f])]]
      s5 == [s4 EXCEPT !.out = ZerosLike(s.out)]
  IN  IF s.X.isNone THEN Raise(s3, "TypeError")
      ELSE IF Len(s.X.shape) < 2 THEN Raise(s3, "IndexError")
      ELSE Ok(s5, <<>>)

\* STFT.reset
reset(s) ==
  LET s1 == [s EXCEPT !.fft_in_buffer = Zeros(Len(s.fft_in_buffer))]
      s2 == [s1 EXCEPT !.x_p = Zeros(Len(s.x_p))]
      s3 == [s2 EXCEPT !.y_p = Zeros(Len(s.y_p))]
      s4 == [s3 EXCEPT !.X.frames =
                         [f \in 1..Len(s.X.frames) |-> Zeros(Len(s.X.frames[f]))]]
      s5 == [s4 EXCEPT !.out = Zeros(Len(s.out))]
  IN  IF s.num_channels > 1 THEN reset_channels(s)
      ELSE IF s.n_state = 1 THEN Raise(s1, "IndexError")     \* x_p is 0-d
      ELSE IF s.n_state_out = 1 THEN Raise(s2, "IndexError") \* y_p is 0-d
      ELSE IF s.X.isNone THEN Raise(s3, "TypeError")
      ELSE IF s.hop = 1 THEN Raise(s4, "IndexError")         \* out is 0-d
      ELSE Ok(s5, <<>>)

\* STFT.zero_pad_front
zero_pad_front(s, zf) ==
  _make_buffers(
    [s EXCEPT !.zf = zf,
              !.nfft = s.num_samples + s.zb + zf,
              !.nbin = (s.num_samples + s.zb + zf) \div 2 + 1,
              !.analysis_window =
                 IF s.analysis_window # None
                   THEN Zeros(zf) \o s.analysis_window ELSE None,
              !.synthesis_window =
                 IF s.synthesis_window # None
                   THEN Zeros(zf) \o s.synthesis_window ELSE None])

\* STFT.zero_pad_back
zero_pad_back(s, zb) ==
  _make_buffers(
    [s EXCEPT !.zb = zb,
              !.nfft = s.num_samples + zb + s.zf,
              !.nbin = (s.num_samples + zb + s.zf) \div 2 + 1,
              !.analysis_window =
                 IF s.analysis_window # None
                   THEN s.analysis_window \o Zeros(zb) ELSE None,
              !.synthesis_window =
                 IF s.synthesis_window # None
                   THEN s.synthesis_window \o Zeros(zb) ELSE None])

\* np.tile(H, (num_frames, 1))
tile(H, F) ==
  Arr(<<F, H.shape[1]>>, [f \in 1..F |-> H.frames[1]])

\* set_filter rejecting a transform length equal to N + len(coeff) - 1
set_filter_strict(s0, coeff, zb, zf, freq) ==
  LET \* apply zero-padding
      back == IF zb # None THEN zero_pad_back(s0, zb[1]) ELSE Ok(s0, <<>>)
      front(r1) == IF r1.exc # "none" THEN r1
                   ELSE IF zf # None THEN zero_pad_front(r1.self, zf[1]) ELSE r1
      filter(r2) ==
        LET s2 == r2.self
            sH == IF ~freq
                    THEN [s2 EXCEPT !.H = Arr(<<s2.nfft \div 2 + 1>>,
                                              <<rfft(coeff.data, s2.nfft)>>)]
                    ELSE [s2 EXCEPT !.H = Arr(<<coeff.len>>, <<coeff.data>>)]
        IN  IF r2.exc # "none" THEN r2
            ELSE IF ~freq /\ s2.nfft <= s2.num_samples + coeff.len - 1
              THEN Raise(sH, "ValueError")
            ELSE IF freq /\ coeff.len # s2.nbin THEN Raise(s2, "ValueError")
            ELSE IF sH.fixed_input
              THEN Ok([sH EXCEPT !.H_multi = tile(sH.H, sH.num_frames)], <<>>)
              ELSE Ok(sH, <<>>)
  IN  \* each step is worked out once and handed to the next
      CHOOSE r \in {filter(r2) : r2 \in {front(r1) : r1 \in {back}}} : TRUE

\* STFT.set_filter.  zb and zf are <<>> for None, else <<pad>>.  coeff is
\* [len, data]: time-domain coefficients (len = Len(data)) when freq is
\* FALSE, else a spectrum of len bins.
set_filter(s0, coeff, zb, zf, freq) ==
  LET \* apply zero-padding
      back == IF zb # None THEN zero_pad_back(s0, zb[1]) ELSE Ok(s0, <<>>)
      front(r1) == IF r1.exc # "none" THEN r1
                   ELSE IF zf # None THEN zero_pad_front(r1.self, zf[1]) ELSE r1
      filter(r2) ==
        LET s2 == r2.self
            sH == IF ~freq
                    THEN [s2 EXCEPT !.H = Arr(<<s2.nfft \div 2 + 1>>,
                                              <<rfft(coeff.data, s2.nfft)>>)]
                    ELSE [s2 EXCEPT !.H = Arr(<<coeff.len>>, <<coeff.data>>)]
        IN  IF r2.exc # "none" THEN r2
            ELSE IF ~freq /\ s2.nfft < s2.num_samples + coeff.len - 1
              THEN Raise(sH, "ValueError")
            ELSE IF freq /\ coeff.len # s2.nbin THEN Raise(s2, "ValueError")
            ELSE IF sH.fixed_input
              THEN Ok([sH EXCEPT !.H_multi = tile(sH.H, sH.num_frames)], <<>>)
              ELSE Ok(sH, <<>>)
  IN  \* each step is worked out once and handed to the next
      CHOOSE r \in {filter(r2) : r2 \in {front(r1) : r1 \in {back}}} : TRUE

----------------------------------------------------------------------------
(* Analysis                                                                 *)

\* old_samples taken at the offset of the carried-state region
old_samples_at_state(s) == Slice(s.fft_in_buffer, s.zf, s.zf + s.n_state)

\* the views of the input buffer made by _make_buffers
fft_in_state(s) == Slice(s.fft_in_buffer, s.zf, s.zf + s.n_state)

fresh_samples(s) == Slice(s.fft_in_buffer, s.zf + s.n_state, s.zf + s.n_state + s.hop)

old_samples(s) == Slice(s.fft_in_buffer, s.zf + s.hop, s.zf + s.hop + s.n_state)

\* _analysis_hop taking the snapshot x_p before the new samples are written
_analysis_hop_snapshot_first(s, x_n, k) ==
  LET s1 == [s EXCEPT !.x_p = old_samples(s)]
      s2 == [s1 EXCEPT !.fft_in_buffer =
                         SetSlice(s.fft_in_buffer, s.zf + s.n_state, x_n)]
      s3 == [s2 EXCEPT !.X.frames[k + 1] = dft_analysis(s2.dft, s2.fft_in_buffer)]
      s4 == [s3 EXCEPT !.fft_in_buffer = SetSlice(s3.fft_in_buffer, s3.zf, s3.x_p)]
  IN  IF Len(x_n) # s.hop THEN Raise(s, "ValueError")
      ELSE IF s.n_state = 1 THEN Raise(s2, "IndexError")
      ELSE IF ~dft_fits(s2.dft, s2.fft_in_buffer) THEN Raise(s2, "ValueError")
      ELSE IF s2.X.isNone THEN Raise(s2, "TypeError")
      ELSE Ok(s4, <<>>)

\* _analysis_hop writing the new samples at the start of the frame
_analysis_hop_fresh_at_front(s, x_n, k) ==
  LET s1 == [s EXCEPT !.fft_in_buffer = SetSlice(s.fft_in_buffer, s.zf, x_n)]
      s2 == [s1 EXCEPT !.x_p = old_samples(s1)]
      s3 == [s2 EXCEPT !.X.frames[k + 1] = dft_analysis(s2.dft, s2.fft_in_buffer)]
      s4 == [s3 EXCEPT !.fft_in_buffer = SetSlice(s3.fft_in_buffer, s3.zf, s3.x_p)]
  IN  IF Len(x_n) # s.hop THEN Raise(s, "ValueError")
      ELSE IF s.n_state = 1 THEN Raise(s1, "IndexError")
      ELSE IF ~dft_fits(s2.dft, s2.fft_in_buffer) THEN Raise(s2, "ValueError")
      ELSE IF s2.X.isNone THEN Raise(s2, "TypeError")
      ELSE Ok(s4, <<>>)

\* _analysis_hop with the state shifted back before the transform is taken
_analysis_hop_early_shift(s, x_n, k) ==
  LET s1 == [s EXCEPT !.fft_in_buffer =
                        SetSlice(s.fft_in_buffer, s.zf + s.n_state, x_n)]
      s2 == [s1 EXCEPT !.x_p = old_samples(s1)]
      s3 == [s2 EXCEPT !.fft_in_buffer = SetSlice(s2.fft_in_buffer, s2.zf, s2.x_p)]
      s4 == [s3 EXCEPT !.X.frames[k + 1] = dft_analysis(s3.dft, s3.fft_in_buffer)]
  IN  IF Len(x_n) # s.hop THEN Raise(s, "ValueError")
      ELSE IF s.n_state = 1 THEN Raise(s1, "IndexError")
      ELSE IF ~dft_fits(s2.dft, s2.fft_in_buffer) THEN Raise(s2, "ValueError")
      ELSE IF s2.X.isNone THEN Raise(s2, "TypeError")
      ELSE Ok(s4, <<>>)

\* one hop of streaming analysis, the frame going to row k of X (k = 0 and a
\* one-row X for _analysis_single): the body of _analysis_single and of the
\* loop of _analysis_streaming
_analysis_hop(s, x_n, k) ==
  LET \* introduce new samples
      s1 == [s EXCEPT !.fft_in_buffer =
                        SetSlice(s.fft_in_buffer, s.zf + s.n_state, x_n)]
      \* save next state
      s2 == [s1 EXCEPT !.x_p = old_samples(s1)]
      \* apply DFT to current frame
      s3 == [s2 EXCEPT !.X.frames[k + 1] = dft_analysis(s2.dft, s2.fft_in_buffer)]
      \* shift backwards in the buffer the state
      s4 == [s3 EXCEPT !.fft_in_buffer = SetSlice(s3.fft_in_buffer, s3.zf, s3.x_p)]
  IN  IF Len(x_n) # s.hop THEN Raise(s, "ValueError")
      ELSE IF s.n_state = 1 THEN Raise(s1, "IndexError")    \* x_p is 0-d
      ELSE IF ~dft_fits(s2.dft, s2.fft_in_buffer) THEN Raise(s2, "ValueError")
      ELSE IF s2.X.isNone THEN Raise(s2, "TypeError")
      ELSE Ok(s4, <<>>)

\* STFT._analysis_single
_analysis_single(s, x_n) == _analysis_hop(s, x_n, 0)

RECURSIVE _analysis_loop(_, _, _)
_analysis_loop(s, x, k) ==
  IF k >= s.num_frames THEN Ok(s, <<>>)
  ELSE LET r == _analysis_hop(s, Slice(x, k * s.hop, (k + 1) * s.hop), k)
       IN  IF r.exc # "none" THEN r ELSE _analysis_loop(r.self, x, k + 1)

\* _analysis_streaming starting each call from an empty input buffer
_analysis_streaming_fresh(s, x) ==
  LET s0 == [s EXCEPT !.fft_in_buffer = Zeros(Len(s.fft_in_buffer))]
  IN  IF s.num_frames = 1 THEN _analysis_single(s0, x) ELSE _analysis_loop(s0, x, 0)

\* STFT._analysis_streaming
_analysis_streaming(s, x) ==
  IF s.num_frames = 1 THEN _analysis_single(s, x) ELSE _analysis_loop(s, x, 0)

\* frame f (from 0) of the strided view of x, between the zero paddings
strided_frame(s, x, f) ==
  Zeros(s.zf) \o Slice(x, f * s.hop, f * s.hop + s.num_samples) \o Zeros(s.zb)

\* STFT._analysis_non_streaming (the mono branch)
_analysis_non_streaming(s, x) ==
  LET y == [f \in 1..s.num_frames |-> strided_frame(s, x, f - 1)]
  IN  IF ~s.dft_frames.defined THEN Raise(s, "AttributeError")
      ELSE IF \E f \in 1..s.num_frames : ~dft_fits(s.dft_frames, y[f])
        THEN Raise(s, "ValueError")
      ELSE Ok([s EXCEPT !.X.frames =
                 [f \in 1..s.num_frames |-> dft_analysis(s.dft_frames, y[f])]],
              <<>>)

\* the frame count analysis works with for an input of len samples
\* (STFT.analysis, "check number of frames")
frames_for(s, len) ==
  IF s.fixed_input THEN s.num_frames
  ELSE IF s.streaming THEN CeilDiv(len, s.hop)
  ELSE IF len < s.num_samples THEN 1
  ELSE CeilDiv(len - s.num_samples, s.hop) + 1

\* the number of zeros analysis appends to an input of len samples
extra_samples(s, len) ==
  IF s.fixed_input THEN 0
  ELSE IF s.streaming THEN frames_for(s, len) * s.hop - len
  ELSE IF len < s.num_samples THEN s.num_samples - len
  ELSE ((frames_for(s, len) - 1) * s.hop + s.num_samples) - len

\* STFT.analysis, x0 a 1-d array; returns the frames of X
analysis(s0, x0) ==
  LET len == Len(x0)
      \* ----check number of frames
      bad == IF s0.streaming
               THEN s0.fixed_input /\ len # s0.num_frames * s0.hop
               ELSE s0.fixed_input
                    /\ len # s0.hop * (s0.num_frames - 1) + s0.num_samples
      F == frames_for(s0, len)
      x == x0 \o Zeros(extra_samples(s0, len))
      \* ----allocate memory if necessary
      s1 == IF s0.fixed_input THEN s0
            ELSE [s0 EXCEPT !.num_frames = F,
                            !.X = ZeroX(F, s0.nbin, s0.nfft),
                            !.dft_frames = DFT(s0.nfft, F, s0.analysis_window,
                                               s0.synthesis_window)]
      \* ----use appropriate function
      r0 == reset(s1)
      r == IF s1.streaming THEN _analysis_streaming(s1, x)
           ELSE IF r0.exc # "none" THEN r0
           ELSE _analysis_non_streaming(r0.self, x)
  IN  IF bad THEN Raise(s0, "ValueError")
      ELSE IF r.exc # "none" THEN r
      ELSE Ok(r.self, r.self.X.frames)

----------------------------------------------------------------------------
(* Frequency-domain input, filtering, synthesis                             *)

\* numpy broadcasting of an array of shape a into one of shape b (a[:] = ...):
\* aligned at the last axis, every dimension of a is 1 or that of b
BroadcastsTo(a, b) ==
  /\ Len(a) <= Len(b)
  /\ \A i \in 1..Len(a) : a[i] = 1 \/ a[i] = b[Len(b) - Len(a) + i]

\* the frames self.X[:] = X leaves in self.X: those of X, its single channel
\* repeated when X has shape (..., 1) and self.X has shape (..., D).  (The
\* engines with D > 1 have nbin # D, so no array of lower rank broadcasts.)
broadcast_frames(X, shape) ==
  IF X.shape = shape THEN X.frames
  ELSE [f \in 1..Len(X.frames) |->
          [c \in 1..shape[Len(shape)] |-> X.frames[f][1]]]

\* _check_input_frequency_dimensions checking the bin count of one-frame
\* input only
_check_input_frequency_dimensions_one_frame_bins(s, X) ==
  LET rank == Len(X.shape)
      D == s.num_channels
      known == rank = 1 \/ rank = 2 \/ (rank = 3 /\ D > 1)
      num_frames == IF rank = 1 THEN 1
                    ELSE IF rank = 2 /\ D > 1 THEN 1
                    ELSE X.shape[1]
  IN  IF ~known THEN Raise(s, "ValueError")
      ELSE IF num_frames = 1 /\ X.shape[1] # s.nbin THEN Raise(s, "ValueError")
      ELSE IF s.fixed_input
        THEN IF num_frames # s.num_frames THEN Raise(s, "ValueError")
             ELSE IF ~BroadcastsTo(X.shape, s.X.shape) THEN Raise(s, "ValueError")
             ELSE Ok([s EXCEPT !.X.frames = broadcast_frames(X, s.X.shape)], <<>>)
        ELSE Ok([s EXCEPT !.X = X, !.num_frames = num_frames], <<>>)

\* STFT._check_input_frequency_dimensions; X is an array (not None)
_check_input_frequency_dimensions(s, X) ==
  LET rank == Len(X.shape)
      D == s.num_channels
      known == \/ rank = 1
               \/ rank = 2
               \/ rank = 3 /\ D > 1
      num_frames == IF rank = 1 THEN 1                 \* one frame
                    ELSE IF rank = 2 /\ D > 1 THEN 1   \* multi-channel, one frame
                    ELSE X.shape[1]
      bins == IF num_frames = 1 THEN X.shape[1] ELSE X.shape[2]
  IN  IF ~known THEN Raise(s, "ValueError")                 \* Invalid input shape
      \* check number of bins
      ELSE IF bins # s.nbin THEN Raise(s, "ValueError")
      \* check number of frames, if fixed input size
      ELSE IF s.fixed_input
        THEN IF num_frames # s.num_frames THEN Raise(s, "ValueError")
             \* self.X[:] = X, which must broadcast to the shape of self.X
             ELSE IF ~BroadcastsTo(X.shape, s.X.shape) THEN Raise(s, "ValueError")
             ELSE Ok([s EXCEPT !.X.frames = broadcast_frames(X, s.X.shape)], <<>>)
        ELSE Ok([s EXCEPT !.X = X, !.num_frames = num_frames], <<>>)

\* np.multiply(X, H, X) over arrays of spectra; H has one row or as many as X
multiply_into(s, Hm) ==
  LET X == s.X
      rowH(f) == IF Len(Hm.frames) = 1 THEN Hm.frames[1] ELSE Hm.frames[f]
      bins(A) == A.shape[Len(A.shape)]
      rows(A) == IF Len(A.shape) = 1 THEN 1 ELSE A.shape[1]
  IN  IF X.isNone \/ Hm.isNone THEN Raise(s, "TypeError")
      ELSE IF bins(X) # bins(Hm) \/ (rows(Hm) # 1 /\ rows(Hm) # rows(X))
        THEN Raise(s, "ValueError")
      ELSE Ok([s EXCEPT !.X.frames =
                 [f \in 1..Len(X.frames) |-> SpecMul(X.frames[f], rowH(f))]],
              <<>>)

\* _process_single leaving X as it is
_process_single_skipped(s) == Ok(s, <<>>)

\* STFT._process_single
_process_single(s) == multiply_into(s, s.H)

\* STFT._process_multiple
_process_multiple(s) ==
  LET s1 == IF ~s.fixed_input
              THEN [s EXCEPT !.H_multi = tile(s.H, s.num_frames)] ELSE s
  IN  multiply_into(s1, s1.H_multi)

\* process looking at the data before it looks for a filter
process_check_first(s, X) ==
  LET r1 == IF ~X.isNone THEN _check_input_frequency_dimensions(s, X)
            ELSE Ok(s, <<>>)
      r2 == IF r1.self.num_frames = 1 THEN _process_single(r1.self)
            ELSE IF r1.self.num_frames > 1 THEN _process_multiple(r1.self)
            ELSE r1
  IN  IF r1.exc # "none" THEN r1
      ELSE IF s.H.isNone THEN Ok(r1.self, <<>>)
      ELSE IF r2.exc # "none" THEN r2
      ELSE Ok(r2.self, r2.self.X.frames)

\* STFT.process; X is NoneArr when the argument is omitted
process(s, X) ==
  LET r1 == IF ~X.isNone THEN _check_input_frequency_dimensions(s, X)
            ELSE Ok(s, <<>>)
      r2 == IF r1.self.num_frames = 1 THEN _process_single(r1.self)
            ELSE IF r1.self.num_frames > 1 THEN _process_multiple(r1.self)
            ELSE r1
  IN  \* check that there is filter
      IF s.H.isNone THEN Ok(s, <<>>)
      ELSE IF r1.exc # "none" THEN r1
      ELSE IF r2.exc # "none" THEN r2
      ELSE Ok(r2.self, r2.self.X.frames)

\* _overlap_and_add without the shift of y_p by one hop
_overlap_and_add_no_shift(s, x) ==
  LET s1 == [s EXCEPT !.out = Slice(x, 0, s.hop)]
      m == Min(s.hop, s.n_state_out)
      L == s.n_state_out
      out2 == [i \in 1..Len(s1.out) |->
                 IF i <= m THEN s1.out[i] + s.y_p[i] ELSE s1.out[i]]
      yp2 == [i \in 1..L |-> IF i > L - s.hop THEN 0 ELSE s.y_p[i]]
      yp3 == VecAdd(yp2, Slice(x, Len(x) - L, Len(x)))
  IN  IF s.hop = 1 THEN Raise(s, "IndexError")
      ELSE IF s.n_state_out > 0
        THEN IF s.n_state_out = 1 THEN Raise(s1, "IndexError")
             ELSE Ok([s1 EXCEPT !.out = out2, !.y_p = yp3], out2)
        ELSE Ok(s1, s1.out)

\* _overlap_and_add without the zero fill of the shifted-out tail of y_p
_overlap_and_add_no_zero_fill(s, x) ==
  LET s1 == [s EXCEPT !.out = Slice(x, 0, s.hop)]
      m == Min(s.hop, s.n_state_out)
      L == s.n_state_out
      out2 == [i \in 1..Len(s1.out) |->
                 IF i <= m THEN s1.out[i] + s.y_p[i] ELSE s1.out[i]]
      yp1 == [i \in 1..L |-> IF i <= L - s.hop THEN s.y_p[i + s.hop] ELSE s.y_p[i]]
      yp3 == VecAdd(yp1, Slice(x, Len(x) - L, Len(x)))
  IN  IF s.hop = 1 THEN Raise(s, "IndexError")
      ELSE IF s.n_state_out > 0
        THEN IF s.n_state_out = 1 THEN Raise(s1, "IndexError")
             ELSE Ok([s1 EXCEPT !.out = out2, !.y_p = yp3], out2)
        ELSE Ok(s1, s1.out)

\* STFT._overlap_and_add on a synthesized frame x of nfft samples
_overlap_and_add(s, x) ==
  LET \* fresh output samples
      s1 == [s EXCEPT !.out = Slice(x, 0, s.hop)]
      m == Min(s.hop, s.n_state_out)
      L == s.n_state_out
      out2 == [i \in 1..Len(s1.out) |->
                 IF i <= m THEN s1.out[i] + s.y_p[i] ELSE s1.out[i]]
      \* update state variables
      yp1 == [i \in 1..L |-> IF i <= L - s.hop THEN s.y_p[i + s.hop] ELSE s.y_p[i]]
      yp2 == [i \in 1..L |-> IF i > L - s.hop THEN 0 ELSE yp1[i]]
      yp3 == VecAdd(yp2, Slice(x, Len(x) - L, Len(x)))
  IN  IF s.hop = 1 THEN Raise(s, "IndexError")              \* out is 0-d
      ELSE IF s.n_state_out > 0
        THEN IF s.n_state_out = 1 THEN Raise(s1, "IndexError")  \* y_p is 0-d
             ELSE Ok([s1 EXCEPT !.out = out2, !.y_p = yp3], out2)
        ELSE Ok(s1, s1.out)

\* _overlap_and_add on an engine with D > 1 channels: the same slices,
\* taken along the first axis, act on every channel.  x[c] is the block of
\* channel c.  (D > 1 is modelled for hop > 1 and nfft - hop # 1, where
\* np.squeeze leaves every buffer two-dimensional.)
_overlap_and_add_channels(s, x) ==
  LET D == s.num_channels
      r(c) == _overlap_and_add([s EXCEPT !.out = s.out[c], !.y_p = s.y_p[c]], x[c])
  IN  Ok([s EXCEPT !.out = [c \in 1..D |-> r(c).self.out],
                   !.y_p = [c \in 1..D |-> r(c).self.y_p]],
         [c \in 1..D |-> r(c).val])

\* a frame of shape (K, D') fits a transform engine built for D channels
dft_fits_channels(d, shape, frame) ==
  /\ shape = <<d.nfft \div 2 + 1, d.D>>
  /\ \A c \in 1..d.D : dft_fits(d, frame[c])

\* STFT._synthesis_single with D > 1 channels
_synthesis_single_channels(s) ==
  IF s.X.isNone THEN Raise(s, "TypeError")
  ELSE IF ~dft_fits_channels(s.dft, s.X.shape, s.X.frames[1])
    THEN Raise(s, "ValueError")
  ELSE LET x == [c \in 1..s.num_channels |->
                   dft_synthesis(s.dft, s.X.frames[1][c])]
       IN  _overlap_and_add_channels(s, x)

\* the loop of _synthesis_multiple with D > 1 channels; x_r[c] is the output
\* of channel c
RECURSIVE _synthesis_loop_channels(_, _, _)
_synthesis_loop_channels(s, f, x_r) ==
  IF f > s.num_frames THEN Ok(s, x_r)
  ELSE IF s.X.isNone THEN Raise(s, "TypeError")             \* None[f, :, :]
  ELSE IF Len(s.X.shape) # 3 THEN Raise(s, "IndexError")    \* X[f, :, :]
  ELSE IF ~dft_fits_channels(s.dft, Tail(s.X.shape), s.X.frames[f])
    THEN Raise(s, "ValueError")
  ELSE LET x == [c \in 1..s.num_channels |->
                   dft_synthesis(s.dft, s.X.frames[f][c])]
           r == _overlap_and_add_channels(s, x)
       IN  _synthesis_loop_channels(r.self, f + 1,
             [c \in 1..s.num_channels |-> x_r[c] \o r.val[c]])

\* STFT._synthesis_single
_synthesis_single(s) ==
  IF s.num_channels > 1 THEN _synthesis_single_channels(s)
  ELSE IF s.X.isNone THEN Raise(s, "TypeError")
  ELSE IF Len(s.X.shape) # 1 \/ ~dft_fits(s.dft, s.X.frames[1])
    THEN Raise(s, "ValueError")
  ELSE LET s1 == [s EXCEPT !.dft.x = dft_synthesis(s.dft, s.X.frames[1])]
       IN  _overlap_and_add(s1, s1.dft.x)

\* the loop of _synthesis_multiple writing every block at x_r[0:hop]
\* (n never advanced)
RECURSIVE _synthesis_loop_n_stuck(_, _, _, _)
_synthesis_loop_n_stuck(s, mx, f, x_r) ==
  IF f > s.num_frames THEN Ok(s, x_r)
  ELSE LET r == _overlap_and_add(s, mx[f])
       IN  IF r.exc # "none" THEN r
           ELSE _synthesis_loop_n_stuck(r.self, mx, f + 1,
                  SetSlice(Zeros(s.num_frames * s.hop), 0, r.val))

RECURSIVE _synthesis_loop(_, _, _, _)
_synthesis_loop(s, mx, f, x_r) ==
  IF f > s.num_frames THEN Ok(s, x_r)
  ELSE LET r == _overlap_and_add(s, mx[f])
       IN  IF r.exc # "none" THEN r
           ELSE _synthesis_loop(r.self, mx, f + 1, x_r \o r.val)

\* STFT._synthesis_multiple
_synthesis_multiple(s) ==
  LET \* treat number of frames as the multiple channels for DFT
      s1 == IF ~s.fixed_input
              THEN [s EXCEPT !.dft_frames = DFT(s.nfft, s.num_frames,
                                s.analysis_window, s.synthesis_window)]
              ELSE s
      \* back to time domain
      mx == [f \in 1..Len(s1.X.frames) |-> dft_synthesis(s1.dft_frames, s1.X.frames[f])]
  IN  IF s.num_channels > 1
        THEN _synthesis_loop_channels(s, 1, [c \in 1..s.num_channels |-> <<>>])
      ELSE IF s1.X.isNone THEN Raise(s1, "AttributeError")
      ELSE IF Len(s1.X.frames) # s1.num_frames
              \/ \E f \in 1..Len(s1.X.frames) : ~dft_fits(s1.dft_frames, s1.X.frames[f])
        THEN Raise(s1, "ValueError")
      ELSE _synthesis_loop(s1, mx, 1, <<>>)

\* STFT.synthesis; X is NoneArr when the argument is omitted; returns the
\* time-domain samples, <<>> for None
synthesis(s, X) ==
  LET r1 == IF ~X.isNone THEN _check_input_frequency_dimensions(s, X)
            ELSE Ok(s, <<>>)
  IN  IF r1.exc # "none" THEN r1
      ELSE IF r1.self.num_frames = 1 THEN _synthesis_single(r1.self)
      ELSE IF r1.self.num_frames > 1 THEN _synthesis_multiple(r1.self)
      ELSE r1

----------------------------------------------------------------------------
(* The calls a client makes                                                 *)

Returned(r, op, arg) ==
  /\ pre' = self
  /\ self' = r.self
  /\ ret' = [op |-> op, exc |-> r.exc, val |-> r.val, arg |-> arg]
  /\ steps' = steps + 1

Analysis(x) ==
  LET r == analysis(self, x)
      padded == x \o Zeros(extra_samples(self, Len(x)))
  IN  /\ Returned(r, "analysis", x)
      /\ IF r.exc # "none" THEN UNCHANGED <<xin, Xhist, yout>>
         ELSE IF self.streaming
           THEN /\ xin' = xin \o padded
                /\ Xhist' = Xhist \o r.val
                /\ UNCHANGED yout
           ELSE \* a batch analysis starts from the reset state
                /\ xin' = padded
                /\ Xhist' = r.val
                /\ yout' = <<>>
      /\ UNCHANGED <<filt, held>>

Process(X) ==
  /\ Returned(process(self, X), "process", X)
  /\ UNCHANGED <<filt, xin, Xhist, yout, held>>

Synthesis(X) ==
  LET r == synthesis(self, X)
  IN  /\ Returned(r, "synthesis", X)
      /\ yout' = IF r.exc = "none" THEN yout \o r.val ELSE yout
      /\ UNCHANGED <<filt, xin, Xhist, held>>

Reset ==
  LET r == reset(self)
  IN  /\ Returned(r, "reset", <<>>)
      /\ IF r.exc = "none"
           THEN xin' = <<>> /\ Xhist' = <<>> /\ yout' = <<>>
           ELSE UNCHANGED <<xin, Xhist, yout>>
      /\ UNCHANGED <<filt, held>>

SetFilter(coeff, zb, zf, freq) ==
  LET r == set_filter(self, coeff, zb, zf, freq)
  IN  /\ Returned(r, "set_filter", [coeff |-> coeff, zb |-> zb, zf |-> zf, freq |-> freq])
      /\ filt' = [called |-> TRUE, ok |-> r.exc = "none", coeff |-> coeff, freq |-> freq]
      \* zero padding reallocates every buffer
      /\ IF zb # None \/ zf # None
           THEN xin' = <<>> /\ Xhist' = <<>> /\ yout' = <<>>
           ELSE UNCHANGED <<xin, Xhist, yout>>
      /\ UNCHANGED held

\* the state after STFT(N, hop, analysis_window, synthesis_window,
\* streaming=..., [num_frames=...]) returned
ConstructedChannels(N, hop, aw, sw, channels, streaming, kw_num_frames) ==
  LET r == __init__(N, hop, aw, sw, channels, streaming, kw_num_frames)
  IN  /\ r.exc = "none"
      /\ self = r.self
      /\ pre = r.self
      /\ ret = [op |-> "__init__", exc |-> "none", val |-> <<>>, arg |-> <<>>]
      /\ filt = [called |-> FALSE, ok |-> FALSE, coeff |-> [len |-> 0, data |-> <<>>],
                 freq |-> FALSE]
      /\ xin = <<>>
      /\ Xhist = <<>>
      /\ yout = <<>>
      /\ held = <<>>
      /\ steps = 0

\* the state after a call of the constructor that returned or raised; when
\* it raised there is no engine, and self is what had been assigned by then
Attempted(N, hop, aw, sw, channels, streaming, kw_num_frames) ==
  LET r == __init__(N, hop, aw, sw, channels, streaming, kw_num_frames)
  IN  /\ self = r.self
      /\ pre = r.self
      /\ ret = [op |-> "__init__", exc |-> r.exc, val |-> <<>>, arg |-> <<>>]
      /\ filt = [called |-> FALSE, ok |-> FALSE, coeff |-> [len |-> 0, data |-> <<>>],
                 freq |-> FALSE]
      /\ xin = <<>>
      /\ Xhist = <<>>
      /\ yout = <<>>
      /\ held = <<>>
      /\ steps = 0

\* a call of zero_pad_front, which reallocates every buffer
ZeroPadFront(zf) ==
  /\ Returned(zero_pad_front(self, zf), "zero_pad_front", zf)
  /\ xin' = <<>> /\ Xhist' = <<>> /\ yout' = <<>>
  /\ UNCHANGED <<filt, held>>

\* a call of zero_pad_back, which reallocates every buffer
ZeroPadBack(zb) ==
  /\ Returned(zero_pad_back(self, zb), "zero_pad_back", zb)
  /\ xin' = <<>> /\ Xhist' = <<>> /\ yout' = <<>>
  /\ UNCHANGED <<filt, held>>

\* the same with the default channels=1
Constructed(N, hop, aw, sw, streaming, kw_num_frames) ==
  ConstructedChannels(N, hop, aw, sw, 1, streaming, kw_num_frames)

----------------------------------------------------------------------------
(* Windows                                                                  *)

\* H ones from offset d, zero elsewhere
Box(N, H, d) == [i \in 1..N |-> IF i > d /\ i <= d + H THEN 1 ELSE 0]

Alternating(N) == [i \in 1..N |-> IF i % 2 = 1 THEN 1 ELSE -1]

StepDown(N, H) == [i \in 1..N |-> IF i <= H THEN 2 ELSE 1]

StepUp(N, H) == [i \in 1..N |-> IF i <= H THEN 1 ELSE IF i <= 2 * H THEN -1 ELSE 0]

\* the analysis/synthesis window pairs an engine is built with
WindowPairs(N, H) ==
  {<<None, None>>, <<Alternating(N), Alternating(N)>>,
   <<StepDown(N, H), StepUp(N, H)>>, <<Box(N, H, 0), None>>,
   <<None, Box(N, H, N - H)>>}

\* the product of the two windows over the N samples of a frame (None is
\* the rectangular window)
WinProduct(aw, sw, N) ==
  [i \in 1..N |-> (IF aw = None THEN 1 ELSE aw[i]) * (IF sw = None THEN 1 ELSE sw[i])]

\* constant overlap-add at hop H: the shifted window products sum to one
COLA(aw, sw, N, H) ==
  LET p == WinProduct(aw, sw, N)
      col(i) == [k \in 1..((N - i) \div H + 1) |-> p[i + (k - 1) * H]]
  IN  \A i \in 1..H : SumTo(col(i), (N - i) \div H + 1) = 1

----------------------------------------------------------------------------
(* SpecStream: a streaming engine fed block after block, each analysis      *)
(* followed by its synthesis                                                *)

\* frame size and hop of the streaming engines
StreamGeometries == {<<2, 2>>, <<4, 2>>, <<5, 3>>, <<6, 2>>, <<3, 2>>, <<3, 1>>}

\* the sample values fed to analysis
Samples == {0, 1}

InitStream ==
  \E g \in StreamGeometries, kw \in {<<>>, <<1>>} :
    \E w \in WindowPairs(g[1], g[2]) :
      Constructed(g[1], g[2], w[1], w[2], TRUE, kw)

StreamAnalysis ==
  /\ ret.op # "analysis"
  /\ \E k \in 1..((MaxStream - Len(xin)) \div self.hop) :
       \E x \in SeqsOf(Samples, k * self.hop) : Analysis(x)

StreamSynthesis ==
  /\ ret.op = "analysis"
  /\ Synthesis(NoneArr)

\* the client stops at the first exception
NextStream ==
  /\ steps < MaxStreamCalls
  /\ ret.exc = "none"
  /\ (StreamAnalysis \/ StreamSynthesis)

SpecStream == InitStream /\ [][NextStream]_vars

----------------------------------------------------------------------------
(* SpecImpulse: a streaming engine with 50% overlap and no window fed hop-   *)
(* sized blocks that hold at most one unit impulse in all                   *)

\* the number of hop-sized calls of the impulse scenario
ImpulseCalls == 8

ImpulseGeometries == {<<4, 2>>, <<6, 3>>}

Impulse(n, i) == [j \in 1..n |-> IF j = i THEN 1 ELSE 0]

InitImpulse ==
  \E g \in ImpulseGeometries, kw \in {<<>>, <<1>>} :
    Constructed(g[1], g[2], None, None, TRUE, kw)

ImpulseAnalysis ==
  /\ ret.op # "analysis"
  /\ Len(xin) < ImpulseCalls * self.hop
  /\ \/ Analysis(Zeros(self.hop))
     \/ /\ xin = Zeros(Len(xin))
        /\ \E i \in 1..self.hop : Analysis(Impulse(self.hop, i))

ImpulseSynthesis ==
  /\ ret.op = "analysis"
  /\ Synthesis(NoneArr)

NextImpulse == ret.exc = "none" /\ (ImpulseAnalysis \/ ImpulseSynthesis)

SpecImpulse == InitImpulse /\ [][NextImpulse]_vars

----------------------------------------------------------------------------
(* Claims checked under SpecStream and SpecImpulse                          *)

\* the engine is as constructed: no filter, no zero padding
Plain(s) == s.H.isNone /\ s.zf = 0 /\ s.zb = 0

EngineCOLA(s) == COLA(s.analysis_window, s.synthesis_window, s.num_samples, s.hop)

\* v delayed by d samples, cut to n samples
Delayed(v, d, n) == [t \in 1..n |-> IF t > d /\ t - d <= Len(v) THEN v[t - d] ELSE 0]

\* C1 (as amended): for a streaming engine with no filter, no zero padding
\* and a window pair that is constant-overlap-add at the hop, every sequence
\* of synthesis(analysis(block)) calls from the reset state returns, in all,
\* the input delayed by N - H samples (N - H zeros first), with unit gain;
\* each synthesis brings the output to the length of the input.
C1_StreamRoundTripDelayed ==
  (self.streaming /\ Plain(self) /\ EngineCOLA(self)) =>
    /\ yout = Delayed(xin, self.num_samples - self.hop, Len(yout))
    /\ (ret.op = "synthesis" /\ ret.exc = "none") => Len(yout) = Len(xin)

\* C1 (as stated): the output equals the input sample for sample at the
\* same positions, with no delay.
C1_StreamRoundTripNoDelay ==
  (self.streaming /\ Plain(self) /\ EngineCOLA(self)) =>
    yout = Delayed(xin, 0, Len(yout))

C1_Witness ==
  /\ self.streaming /\ Plain(self) /\ EngineCOLA(self)
  /\ self.hop < self.num_samples
  /\ self.analysis_window # None /\ self.synthesis_window # None
  /\ ret.op = "synthesis" /\ ret.exc = "none"
  /\ Len(yout) = MaxStream
  /\ xin[1] = 1 /\ yout[self.num_samples - self.hop + 1] = 1

\* C3 (as amended): with H = N/2, no filter, no window and no padding, eight
\* hop-sized analysis/synthesis calls from the reset state whose input is a
\* unit impulse at sample 0 and zero elsewhere return, in all, the value 2
\* at output sample H = N - H and 0 at every other sample.
C3_ImpulseDelayedDoubled ==
  ( /\ self.streaming /\ Plain(self)
    /\ self.analysis_window = None /\ self.synthesis_window = None
    /\ self.num_samples = 2 * self.hop
    /\ ret.op = "synthesis" /\ ret.exc = "none"
    /\ xin = Impulse(ImpulseCalls * self.hop, 1) ) =>
    yout = [t \in 1..(ImpulseCalls * self.hop) |-> IF t = self.hop + 1 THEN 2 ELSE 0]

\* C3 (as stated): the output is 1 at output sample 0 and 0 elsewhere.
C3_ImpulseAtZero ==
  ( /\ self.streaming /\ Plain(self)
    /\ self.analysis_window = None /\ self.synthesis_window = None
    /\ self.num_samples = 2 * self.hop
    /\ ret.op = "synthesis" /\ ret.exc = "none"
    /\ xin = Impulse(ImpulseCalls * self.hop, 1) ) =>
    yout = Impulse(ImpulseCalls * self.hop, 1)

C3_Witness ==
  /\ self.streaming /\ Plain(self)
  /\ self.analysis_window = None /\ self.synthesis_window = None
  /\ self.num_samples = 2 * self.hop
  /\ ret.op = "synthesis" /\ ret.exc = "none"
  /\ xin = Impulse(ImpulseCalls * self.hop, 1)
  /\ Len(yout) = ImpulseCalls * self.hop

\* the engine as first constructed, with the mode and frame-count keyword given
Fresh(s, streaming, kw) ==
  __init__(s.num_samples, s.hop, s.analysis_window, s.synthesis_window,
           s.num_channels, streaming, kw).self

\* C4: on a streaming engine without a fixed frame count, however a signal
\* is split into analysis calls at hop multiples, the frames produced, the
\* input buffer and x_p are those of one analysis call on the whole signal;
\* and once every block has been synthesized, the concatenated output and
\* y_p are those of one synthesis call on all the frames.
C4_ChunkingIndependence ==
  (self.streaming /\ ~self.fixed_input /\ Plain(self) /\ ret.exc = "none") =>
    LET whole == analysis(Fresh(self, TRUE, <<>>), xin)
        wholeS == synthesis(whole.self, NoneArr)
    IN  /\ whole.exc = "none"
        /\ Xhist = whole.val
        /\ self.fft_in_buffer = whole.self.fft_in_buffer
        /\ self.x_p = whole.self.x_p
        /\ ret.op = "synthesis" =>
             /\ wholeS.exc = "none"
             /\ yout = wholeS.val
             /\ self.y_p = wholeS.self.y_p

C4_Witness ==
  /\ self.streaming /\ ~self.fixed_input /\ Plain(self)
  /\ ret.op = "synthesis" /\ ret.exc = "none"
  /\ steps >= 4
  /\ Len(xin) >= 3 * self.hop
  /\ self.hop < self.num_samples
  /\ \E i \in 1..Len(self.y_p) : self.y_p[i] # 0
  /\ \E i \in 1..Len(self.x_p) : self.x_p[i] # 0

\* C5: for H dividing N and no padding, once the stream holds
\* (F-1)*H + N samples, frame k (of 0..F-1) of one batch analysis of it under
\* the same windows (when that call returns: with H = 1 it raises in reset)
\* is the frame the streaming engine produced on the hop
\* that delivered sample k*H + N - 1; the frames produced before N samples
\* had arrived are the transforms of the samples so far preceded by zeros.
C5_StreamingBatchEquivalence ==
  ( /\ self.streaming /\ Plain(self) /\ ret.exc = "none"
    /\ self.num_samples % self.hop = 0 ) =>
    LET N == self.num_samples
        H == self.hop
        batch == analysis(Fresh(self, FALSE, <<>>), xin)
        F == (Len(xin) - N) \div H + 1
    IN  /\ (Len(xin) >= N /\ batch.exc = "none") =>
             /\ Len(batch.val) = F
             /\ \A k \in 0..(F - 1) : batch.val[k + 1] = Xhist[k + N \div H]
        /\ \A j \in 1..Len(Xhist) :
             j * H < N =>
               Xhist[j] = dft_analysis(self.dft, Zeros(N - j * H) \o SubSeq(xin, 1, j * H))

C5_Witness ==
  /\ self.streaming /\ Plain(self) /\ ret.exc = "none"
  /\ self.num_samples = 2 * self.hop
  /\ self.analysis_window # None
  /\ Len(xin) = self.num_samples + self.hop
  /\ \A t \in 1..Len(xin) : xin[t] = 1
  /\ \E i \in 1..self.nfft : Xhist[3][i] # 0

----------------------------------------------------------------------------
(* SpecBatch: a batch (non-streaming) engine given whole signals of         *)
(* (F-1)*H + N samples, each analysis followed by its synthesis             *)

BatchGeometries == {<<2, 2>>, <<4, 2>>, <<5, 3>>, <<3, 1>>}

InitBatch ==
  \E g \in BatchGeometries, kw \in {<<>>, <<1>>, <<2>>} :
    \E w \in WindowPairs(g[1], g[2]) :
      Constructed(g[1], g[2], w[1], w[2], FALSE, kw)

BatchAnalysis ==
  /\ ret.op # "analysis"
  /\ \E F \in 1..MaxBatchFrames :
       \E x \in SeqsOf(Samples, (F - 1) * self.hop + self.num_samples) : Analysis(x)

BatchSynthesis ==
  /\ ret.op = "analysis"
  /\ Synthesis(NoneArr)

\* the client makes one round trip and stops at the first exception
NextBatch ==
  /\ steps < 2
  /\ ret.exc = "none"
  /\ (BatchAnalysis \/ BatchSynthesis)

SpecBatch == InitBatch /\ [][NextBatch]_vars

\* the part of the overlap-add sum at offset i of the tail that the F
\* frames of a batch have contributed: the window products at i + k*H
TailGain(s, i) ==
  LET p == WinProduct(s.analysis_window, s.synthesis_window, s.num_samples)
      K == Min(s.num_frames, (s.num_samples - i) \div s.hop)
  IN  SumTo([k \in 1..K |-> p[i + k * s.hop]], K)

\* C2 (as amended): in batch mode with no filter, no padding and a
\* constant-overlap-add window pair, synthesis() after analysis(x) of
\* (F-1)*H + N samples returns F*H samples, which equal x at every position
\* from N - H on; the last N - H samples of x are not returned: their
\* partial overlap-add sums stay in y_p.
C2_BatchRoundTripHead ==
  ( /\ ~self.streaming /\ Plain(self) /\ EngineCOLA(self)
    /\ ret.op = "synthesis" /\ ret.exc = "none" ) =>
    LET N == self.num_samples
        H == self.hop
        F == self.num_frames
    IN  /\ Len(xin) = (F - 1) * H + N
        /\ yout = ret.val
        /\ Len(yout) = F * H
        /\ \A t \in (N - H + 1)..(F * H) : yout[t] = xin[t]
        /\ self.y_p = [i \in 1..(N - H) |-> TailGain(self, i) * xin[F * H + i]]

\* C2 (as stated): synthesis() returns all (F-1)*H + N samples of x.
C2_BatchRoundTripFull ==
  ( /\ ~self.streaming /\ Plain(self) /\ EngineCOLA(self)
    /\ ret.op = "synthesis" /\ ret.exc = "none" ) =>
    /\ Len(ret.val) = (self.num_frames - 1) * self.hop + self.num_samples
    /\ ret.val = xin

C2_Witness ==
  /\ ~self.streaming /\ Plain(self) /\ EngineCOLA(self)
  /\ ret.op = "synthesis" /\ ret.exc = "none"
  /\ self.num_frames = 2 /\ self.hop < self.num_samples
  /\ self.analysis_window # None /\ self.synthesis_window # None
  /\ \A t \in 1..Len(xin) : xin[t] = 1
  /\ \E i \in 1..Len(self.y_p) : self.y_p[i] # 0
  /\ yout[Len(yout)] = 1

----------------------------------------------------------------------------
(* SpecFilter: a streaming engine given a time-domain filter, then fed      *)
(* hop-sized blocks through analysis, process and synthesis                 *)

FilterGeometries == {<<2, 2>>, <<4, 2>>}

FilterWindowPairs(N, H) ==
  {<<None, None>>, <<Box(N, H, 0), None>>, <<None, Box(N, H, N - H)>>}

\* time-domain coefficients, as set_filter takes them
TimeCoeff(h) == [len |-> Len(h), data |-> h]

FilterCoeffs == UNION {SeqsOf({1, 2}, M) : M \in 1..MaxFilterLen}

\* a padding argument: omitted, or a number of samples
Pads == {None} \cup {<<z>> : z \in 1..MaxPad}

InitFilter ==
  \E g \in FilterGeometries, kw \in {<<>>, <<1>>} :
    \E w \in FilterWindowPairs(g[1], g[2]) :
      Constructed(g[1], g[2], w[1], w[2], TRUE, kw)

FilterSet ==
  /\ steps = 0
  /\ \E h \in FilterCoeffs, zb \in Pads, zf \in Pads :
       SetFilter(TimeCoeff(h), zb, zf, FALSE)

FilterAnalysis ==
  /\ ret.op \in {"set_filter", "synthesis"}
  /\ Len(xin) + self.hop <= MaxFilterStream
  /\ \E x \in SeqsOf(Samples, self.hop) : Analysis(x)

FilterProcess ==
  /\ ret.op = "analysis"
  /\ Process(NoneArr)

FilterSynthesis ==
  /\ ret.op = "process"
  /\ Synthesis(NoneArr)

\* the client stops at the first exception
NextFilter ==
  /\ ret.exc = "none"
  /\ (FilterSet \/ FilterAnalysis \/ FilterProcess \/ FilterSynthesis)

SpecFilter == InitFilter /\ [][NextFilter]_vars

\* the linear convolution of x with h, cut to the length of x
Conv(x, h) ==
  [t \in 1..Len(x) |->
     SumTo([k \in 1..Len(h) |-> IF t - k + 1 >= 1 THEN h[k] * x[t - k + 1] ELSE 0],
           Len(h))]

\* the window the engine was built with: the N samples between the paddings
Unpadded(s, w) == IF w = None THEN None ELSE Slice(w, s.zf, s.zf + s.num_samples)

\* C6 (as amended): for a streaming engine whose time-domain filter h was
\* installed by set_filter with back padding zb >= len(h) - 1, with no
\* synthesis window and an analysis window that is constant-overlap-add at
\* the hop (or none with H = N), the outputs of analysis -> process ->
\* synthesis over hop-sized calls from the reset state are, in all, the
\* linear convolution of the input with h delayed by N - H + zf samples, cut
\* to the number of samples emitted.
C6_FilterLinearDelayed ==
  ( /\ self.streaming /\ filt.called /\ filt.ok /\ ~filt.freq
    /\ self.zb >= filt.coeff.len - 1
    /\ self.synthesis_window = None
    /\ COLA(Unpadded(self, self.analysis_window), None, self.num_samples, self.hop) ) =>
    /\ yout = Delayed(Conv(xin, filt.coeff.data),
                      self.num_samples - self.hop + self.zf, Len(yout))
    /\ (ret.op = "synthesis" /\ ret.exc = "none") => Len(yout) = Len(xin)

\* C6 (as stated): with nfft >= N + len(h) - 1 and a constant-overlap-add
\* window pair the outputs are the linear convolution of the input with h,
\* cut to the number of samples emitted.
C6_FilterLinear ==
  ( /\ self.streaming /\ filt.called /\ filt.ok /\ ~filt.freq
    /\ self.nfft >= self.num_samples + filt.coeff.len - 1
    /\ COLA(Unpadded(self, self.analysis_window),
            Unpadded(self, self.synthesis_window), self.num_samples, self.hop) ) =>
    yout = Delayed(Conv(xin, filt.coeff.data), 0, Len(yout))

C6_Witness ==
  /\ self.streaming /\ filt.called /\ filt.ok /\ ~filt.freq
  /\ filt.coeff.data = <<1, 2>>
  /\ self.zb >= 1 /\ self.zf >= 1
  /\ self.hop < self.num_samples
  /\ self.synthesis_window = None /\ self.analysis_window # None
  /\ COLA(Unpadded(self, self.analysis_window), None, self.num_samples, self.hop)
  /\ ret.op = "synthesis" /\ ret.exc = "none"
  /\ Len(yout) = MaxFilterStream
  /\ xin[1] = 1
  /\ yout[self.num_samples - self.hop + self.zf + 1] = 1

----------------------------------------------------------------------------
(* SpecConfig: set_filter called again and again on an engine               *)

ConfigGeometries == {<<2, 2>>, <<4, 2>>}

\* time-domain coefficients of every length up to MaxFilterLen
ConfigCoeffs == {[i \in 1..M |-> 1] : M \in 1..MaxFilterLen}

InitConfig ==
  \E g \in ConfigGeometries, streaming \in BOOLEAN, kw \in {<<>>, <<2>>} :
    Constructed(g[1], g[2], None, None, streaming, kw)

ConfigSetFilter ==
  \E h \in ConfigCoeffs, zb \in Pads, zf \in Pads :
    SetFilter(TimeCoeff(h), zb, zf, FALSE)

NextConfig == steps < MaxConfigCalls /\ ConfigSetFilter

SpecConfig == InitConfig /\ [][NextConfig]_vars

\* C7: set_filter with time-domain coefficients of length M raises (a
\* ValueError) if and only if, with the padding arguments of that call
\* applied, nfft = N + zf + zb < N + M - 1; it returns whenever
\* nfft >= N + M - 1, equality included.
C7_PaddingRejection ==
  (ret.op = "set_filter" /\ ~ret.arg.freq) =>
    LET zb == IF ret.arg.zb = None THEN pre.zb ELSE ret.arg.zb[1]
        zf == IF ret.arg.zf = None THEN pre.zf ELSE ret.arg.zf[1]
        nfft == pre.num_samples + zf + zb
        M == ret.arg.coeff.len
    IN  /\ self.nfft = nfft /\ self.zb = zb /\ self.zf = zf
        /\ ret.exc # "none" <=> nfft < pre.num_samples + M - 1
        /\ ret.exc \in {"none", "ValueError"}

C7_Witness ==
  /\ ret.op = "set_filter" /\ ~ret.arg.freq /\ ret.exc = "none"
  /\ steps = 2
  /\ ret.arg.coeff.len = 2
  /\ pre.zf = 0 /\ pre.zb = 2
  /\ ret.arg.zf = None /\ ret.arg.zb = <<1>>
  /\ self.nfft = self.num_samples + 1

----------------------------------------------------------------------------
(* Spec: analysis, process, synthesis and reset called in any order, with   *)
(* any input length and frequency data of any shape, on an engine of either *)
(* mode, with or without a fixed frame count, with or without a filter      *)

Geometries == {<<4, 2>>, <<3, 2>>}

\* frequency data of F frames of K bins, of rank 1, 2 or 3
FreqArray(rank, F, K, nfft) ==
  Arr(IF rank = 1 THEN <<K>> ELSE IF rank = 2 THEN <<F, K>> ELSE <<F, K, 1>>,
      [f \in 1..F |-> [i \in 1..nfft |-> 1]])

FreqInputs(s) ==
  {FreqArray(1, 1, K, s.nfft) : K \in {s.nbin, s.nbin + 1}}
  \cup {FreqArray(2, F, K, s.nfft) : F \in 1..MaxFreqFrames, K \in {s.nbin, s.nbin + 1}}
  \cup {FreqArray(3, 2, s.nbin, s.nfft)}

Init ==
  \E g \in Geometries, streaming \in BOOLEAN, kw \in {<<>>, <<0>>, <<1>>, <<2>>} :
    Constructed(g[1], g[2], None, None, streaming, kw)

ApiSetFilter ==
  /\ steps = 0
  /\ \E zb \in Pads : SetFilter(TimeCoeff(<<1, 2>>), zb, None, FALSE)

ApiAnalysis == \E n \in 0..MaxLen : Analysis([i \in 1..n |-> 1])

ApiProcess == \E X \in FreqInputs(self) \cup {NoneArr} : Process(X)

ApiSynthesis == \E X \in FreqInputs(self) \cup {NoneArr} : Synthesis(X)

ApiReset == Reset

Next ==
  /\ steps < MaxCalls
  /\ (ApiSetFilter \/ ApiAnalysis \/ ApiProcess \/ ApiSynthesis \/ ApiReset)

Spec == Init /\ [][Next]_vars

\* the engine was built with streaming enabled and num_frames=0
RealTime(s) == s.streaming /\ s.fixed_input /\ s.num_frames = 0

\* C8: an engine constructed with streaming enabled and fixed frame count 0
\* accepts, on every analysis call, a block of exactly H samples and produces
\* one frequency frame for it, and a synthesis call that follows returns H
\* time-domain samples.
C8_RealTimeHopPerCall ==
  /\ (RealTime(pre) /\ ret.op = "analysis" /\ Len(ret.arg) = pre.hop) =>
       (ret.exc = "none" /\ Len(ret.val) = 1)
  /\ (RealTime(pre) /\ ret.op = "synthesis" /\ ret.arg.isNone) =>
       (ret.exc = "none" /\ Len(ret.val) = pre.hop)

\* the input length a fixed engine asks of analysis
fixed_length(s) ==
  IF s.streaming THEN s.num_frames * s.hop
  ELSE s.hop * (s.num_frames - 1) + s.num_samples

\* the state an analysis call works on
Carried(s) == <<s.fft_in_buffer, s.x_p, s.y_p, s.X, s.num_frames>>

\* C9: on an engine with a fixed frame count F, analysis returns if and only
\* if the input length is F*H (streaming) or (F-1)*H + N (batch); any other
\* length raises the length error (a ValueError); and a call that raised
\* leaves the input buffer, x_p, y_p, X and the frame count as they were.
C9_FixedLengthContract ==
  (pre.fixed_input /\ ret.op = "analysis") =>
    /\ ret.exc = "none" <=> Len(ret.arg) = fixed_length(pre)
    /\ Len(ret.arg) # fixed_length(pre) => ret.exc = "ValueError"
    /\ ret.exc # "none" => Carried(self) = Carried(pre)

\* frame and bin count of frequency data as a mono engine reads them
frames_of(X) == IF Len(X.shape) = 1 THEN 1 ELSE X.shape[1]
bins_of(X) == IF Len(X.shape) = 1 THEN X.shape[1] ELSE X.shape[2]

\* external frequency data with a wrong bin count, or, on a fixed engine,
\* a wrong frame count
Misshapen(s, X) ==
  /\ ~X.isNone
  /\ bins_of(X) # s.nbin \/ (s.fixed_input /\ frames_of(X) # s.num_frames)

\* C10: synthesis, or process on an engine that has a filter, called with
\* external frequency data whose bin count differs from nbin, or (fixed
\* engine) whose frame count differs from the fixed frame count, raises a
\* ValueError and leaves the whole engine state as it was; and no call
\* changes the frame count of a fixed engine.
C10_FrequencyInputRejection ==
  /\ ( /\ ret.op \in {"process", "synthesis"}
       /\ ret.op = "process" => ~pre.H.isNone
       /\ Misshapen(pre, ret.arg) ) =>
       (ret.exc = "ValueError" /\ self = pre)
  /\ pre.fixed_input =>
       (self.fixed_input /\ self.num_frames = pre.num_frames)

\* C10 as stated: process included whether or not a filter is set
C10_FrequencyInputRejectionAnyProcess ==
  /\ ( /\ ret.op \in {"process", "synthesis"}
       /\ Misshapen(pre, ret.arg) ) =>
       (ret.exc = "ValueError" /\ self = pre)
  /\ pre.fixed_input =>
       (self.fixed_input /\ self.num_frames = pre.num_frames)

\* wrong data rejected by process on an engine with a filter and carried
\* state, and by synthesis on a fixed engine with carried state
C10_Witness ==
  /\ ret.op \in {"process", "synthesis"}
  /\ ret.exc = "ValueError" /\ Misshapen(pre, ret.arg)
  /\ \E i \in 1..Len(pre.fft_in_buffer) : pre.fft_in_buffer[i] # 0
  /\ \/ ret.op = "process" /\ ~pre.H.isNone /\ bins_of(ret.arg) # pre.nbin
     \/ /\ ret.op = "synthesis" /\ pre.fixed_input
        /\ bins_of(ret.arg) = pre.nbin /\ frames_of(ret.arg) # pre.num_frames

----------------------------------------------------------------------------
(* SpecChannels: frequency data of any rank and channel count handed to an  *)
(* engine with D > 1 channels.  No filter is set on these engines.          *)

ChannelCounts == {2}

ChannelGeometries == {<<4, 2>>, <<4, 4>>}

\* frequency data of the given shape; channel c of every frame holds the
\* spectrum with coefficients all c
ChannelArray(shape, F, Dx, nfft) ==
  Arr(shape, [f \in 1..F |-> [c \in 1..Dx |-> [i \in 1..nfft |-> c]]])

ChannelInputs(s) ==
  LET Ks == {s.nbin, s.nbin + 1}
      Ds == 1..(s.num_channels + 1)
  IN  {FreqArray(1, 1, K, s.nfft) : K \in Ks}
      \cup {ChannelArray(<<K, Dx>>, 1, Dx, s.nfft) : K \in Ks, Dx \in Ds}
      \cup UNION {{ChannelArray(<<F, K, Dx>>, F, Dx, s.nfft) : K \in Ks, Dx \in Ds}
                  : F \in 1..2}

InitChannels ==
  \E g \in ChannelGeometries, D \in ChannelCounts, streaming \in BOOLEAN,
     kw \in {<<>>, <<0>>, <<1>>, <<2>>} :
    ConstructedChannels(g[1], g[2], None, None, D, streaming, kw)

ChannelsProcess == \E X \in ChannelInputs(self) \cup {NoneArr} : Process(X)

\* yout collects the returned blocks, one sequence per channel
ChannelsSynthesis == \E X \in ChannelInputs(self) \cup {NoneArr} : Synthesis(X)

ChannelsReset == Reset

NextChannels ==
  /\ steps < MaxChannelCalls
  /\ (ChannelsProcess \/ ChannelsSynthesis \/ ChannelsReset)

SpecChannels == InitChannels /\ [][NextChannels]_vars

\* the channel count of frequency data as an engine with D channels reads it
\* (0: the data has no channel axis)
channels_of(s, X) ==
  IF Len(X.shape) = 3 THEN X.shape[3]
  ELSE IF Len(X.shape) = 2 /\ s.num_channels > 1 THEN X.shape[2]
  ELSE IF s.num_channels > 1 THEN 0
  ELSE 1

\* C11: on an engine with D channels, process or synthesis called with
\* external frequency data whose channel dimension differs from D raises a
\* ValueError, and the data is not adopted: X and the frame count stay as
\* they were.
C11_ChannelCountValidation ==
  ( /\ ret.op \in {"process", "synthesis"}
    /\ ~ret.arg.isNone
    /\ channels_of(pre, ret.arg) # pre.num_channels ) =>
    /\ ret.exc = "ValueError"
    /\ self.X = pre.X
    /\ self.num_frames = pre.num_frames

\* frequency data in a layout the engine documents: (nbin,) or (F, nbin) on
\* a mono engine, (nbin, D) or (F, nbin, D) on an engine with D channels
valid_layout(s, X) ==
  LET D == s.num_channels
  IN  /\ ~X.isNone
      /\ IF D = 1
           THEN X.shape = <<s.nbin>>
                \/ (Len(X.shape) = 2 /\ X.shape[1] >= 1 /\ X.shape[2] = s.nbin)
           ELSE X.shape = <<s.nbin, D>>
                \/ (Len(X.shape) = 3 /\ X.shape[1] >= 1 /\ Tail(X.shape) = <<s.nbin, D>>)

\* the number of frames such data holds
layout_frames(s, X) ==
  IF Len(X.shape) = (IF s.num_channels = 1 THEN 1 ELSE 2) THEN 1 ELSE X.shape[1]

\* C12: on an engine without a fixed frame count, synthesis or process given
\* external data in a documented layout, of any frame count F >= 1 (F = 1 in
\* a multi-frame layout included), returns, and afterwards the frame count
\* is that of the data and X is the data.
C12_ValidInputAdopted ==
  ( /\ ret.op \in {"process", "synthesis"}
    /\ ~pre.fixed_input
    /\ valid_layout(pre, ret.arg) ) =>
    /\ ret.exc = "none"
    /\ self.num_frames = layout_frames(pre, ret.arg)
    /\ self.X = ret.arg

\* the frame count and the number of appended zeros stated for an input of
\* len samples: the least F >= 0 (streaming) or F >= 1 (batch) whose frames
\* cover the input, and the zeros that fill the last frame
inferred_frames(s, len) ==
  IF s.streaming
    THEN CHOOSE F \in 0..len : F * s.hop >= len /\ (F = 0 \/ (F - 1) * s.hop < len)
    ELSE IF len < s.num_samples THEN 1
    ELSE 1 + (CHOOSE G \in 0..len :
                /\ G * s.hop >= len - s.num_samples
                /\ (G = 0 \/ (G - 1) * s.hop < len - s.num_samples))

inferred_padding(s, len) ==
  IF s.streaming THEN inferred_frames(s, len) * s.hop - len
  ELSE (inferred_frames(s, len) - 1) * s.hop + s.num_samples - len

\* C13: on an engine without a fixed frame count, analysis returns for every
\* input length; the frame count becomes F = ceil(len/H) (streaming), 1 when
\* len < N (batch), else ceil((len-N)/H) + 1 (batch); F frames are returned;
\* and the samples taken in are the input followed by p zeros, with
\* len + p = F*H (streaming) or (F-1)*H + N (batch), and 0 <= p < H unless
\* len < N in batch mode.
C13_FrameCountInference ==
  (ret.op = "analysis" /\ ~pre.fixed_input) =>
    LET len == Len(ret.arg)
        F == inferred_frames(pre, len)
        p == inferred_padding(pre, len)
    IN  /\ ret.exc = "none"
        /\ self.num_frames = F
        /\ Len(ret.val) = F
        /\ p >= 0
        /\ (pre.streaming \/ len >= pre.num_samples) => p < pre.hop
        /\ Len(xin) >= len + p
        /\ Slice(xin, Len(xin) - len - p, Len(xin)) = ret.arg \o Zeros(p)

----------------------------------------------------------------------------
(* SpecConstruct: the constructor called with any frame size and hop, then  *)
(* the calls that reallocate the buffers                                    *)

\* the constructor returned, so there is an engine to call
EngineExists == ~(ret.op = "__init__" /\ ret.exc # "none")

InitConstruct ==
  \E N \in 1..MaxN, hop \in 1..MaxHop, streaming \in BOOLEAN, kw \in {<<>>, <<1>>} :
    Attempted(N, hop, None, None, 1, streaming, kw)

ConstructZeroPadFront == \E zf \in 0..MaxPad : ZeroPadFront(zf)

ConstructZeroPadBack == \E zb \in 0..MaxPad : ZeroPadBack(zb)

\* a two-tap filter, for which an engine without padding is too short
ConstructSetFilter == \E zb \in Pads : SetFilter(TimeCoeff(<<1, 1>>), zb, None, FALSE)

NextConstruct ==
  /\ EngineExists
  /\ steps < MaxReallocations
  /\ (ConstructZeroPadFront \/ ConstructZeroPadBack \/ ConstructSetFilter)

SpecConstruct == InitConstruct /\ [][NextConstruct]_vars

----------------------------------------------------------------------------
(* reset                                                                    *)

\* every sample of a buffer of D channels is zero
AllZero(b, D) ==
  IF D = 1 THEN \A i \in 1..Len(b) : b[i] = 0
  ELSE \A c \in 1..Len(b) : \A i \in 1..Len(b[c]) : b[c][i] = 0

\* the attributes that reset() has no assignment to
Configuration(s) ==
  <<s.num_samples, s.hop, s.num_channels, s.streaming, s.fixed_input,
    s.num_frames, s.zf, s.zb, s.nfft, s.nbin, s.n_state, s.n_state_out,
    s.analysis_window, s.synthesis_window, s.H, s.H_multi>>

\* C15: reset() returns without error on every engine in every state, leaves
\* the input buffer, x_p, y_p, X and out all zero, and changes nothing of the
\* configuration.
C15_ResetTotal ==
  ret.op = "reset" =>
    /\ ret.exc = "none"
    /\ AllZero(self.fft_in_buffer, self.num_channels)
    /\ AllZero(self.x_p, self.num_channels)
    /\ AllZero(self.y_p, self.num_channels)
    /\ AllZero(self.out, self.num_channels)
    /\ ~self.X.isNone
    /\ \A f \in 1..Len(self.X.frames) :
         AllZero(self.X.frames[f], self.num_channels)
    /\ Configuration(self) = Configuration(pre)

----------------------------------------------------------------------------
(* SpecPadding: the calls that change the zero padding, on engines with     *)
(* and without windows                                                      *)

\* the window given to the constructor, one value per sample of the frame
PaddingWindow == <<1, 2, 3, 4>>

InitPadding ==
  \E aw \in {None, PaddingWindow}, sw \in {None, PaddingWindow},
     streaming \in BOOLEAN, kw \in {<<>>, <<2>>} :
    Constructed(Len(PaddingWindow), 2, aw, sw, streaming, kw)

PaddingZeroPadFront == \E zf \in 0..MaxPad : ZeroPadFront(zf)

PaddingZeroPadBack == \E zb \in 0..MaxPad : ZeroPadBack(zb)

PaddingSetFilter ==
  \E h \in ConfigCoeffs, zb \in Pads, zf \in Pads :
    SetFilter(TimeCoeff(h), zb, zf, FALSE)

NextPadding ==
  /\ steps < MaxReallocations
  /\ (PaddingZeroPadFront \/ PaddingZeroPadBack \/ PaddingSetFilter)

SpecPadding == InitPadding /\ [][NextPadding]_vars

\* C16: after any sequence of zero_pad_front, zero_pad_back and set_filter
\* calls, nfft = N + zf + zb, nbin = nfft div 2 + 1, and each window that was
\* given is zf zeros, then its N values, then zb zeros, of length nfft.
C16_WindowLengthConsistency ==
  /\ self.nfft = self.num_samples + self.zf + self.zb
  /\ self.nbin = self.nfft \div 2 + 1
  /\ \A w \in {self.analysis_window, self.synthesis_window} :
       w # None =>
         /\ Len(w) = self.nfft
         /\ w = Zeros(self.zf) \o PaddingWindow \o Zeros(self.zb)

----------------------------------------------------------------------------
(* process                                                                  *)

\* C17: process on an engine with no filter, with or without frequency data
\* passed in, raises nothing and leaves the engine as it was: X, the frame
\* count, the input buffer, x_p, y_p and every other attribute.
C17_ProcessWithoutFilterNoOp ==
  (ret.op = "process" /\ pre.H.isNone) =>
    /\ ret.exc = "none"
    /\ self.X = pre.X
    /\ self.num_frames = pre.num_frames
    /\ self.fft_in_buffer = pre.fft_in_buffer
    /\ self.x_p = pre.x_p
    /\ self.y_p = pre.y_p
    /\ self = pre

\* process with data of another frame count, on an engine that holds the two
\* frames of an analysis and has no filter
C17_Witness ==
  /\ ret.op = "process"
  /\ pre.H.isNone
  /\ ~filt.called
  /\ ~pre.X.isNone /\ pre.num_frames = 2
  /\ ~ret.arg.isNone /\ frames_of(ret.arg) = 3

----------------------------------------------------------------------------
(* SpecProcess: set_filter, analysis and process in any order on an engine  *)
(* of frame size 4 and hop 2                                                *)

\* the filters handed to set_filter; the second is too long for MaxPad - 1
\* padding samples
ProcessCoeffs == {<<1, 2>>, <<1, 1, 1>>}

\* frequency data of F frames, frame f holding the spectrum of an impulse at
\* sample f - 1, so that no two frames are equal
ProcessArray(rank, F, s) ==
  Arr(IF rank = 1 THEN <<s.nbin>> ELSE <<F, s.nbin>>,
      [f \in 1..F |-> [i \in 1..s.nfft |-> IF i = f THEN 1 ELSE 0]])

ProcessInputs(s) ==
  {ProcessArray(1, 1, s)} \cup {ProcessArray(2, F, s) : F \in 1..MaxFreqFrames}

InitProcess ==
  \E streaming \in BOOLEAN, kw \in {<<>>, <<1>>, <<2>>} :
    Constructed(4, 2, None, None, streaming, kw)

ProcessSetFilter ==
  \E h \in ProcessCoeffs, zb \in Pads : SetFilter(TimeCoeff(h), zb, None, FALSE)

\* one frame size of samples, or one hop more
ProcessAnalysis ==
  \E n \in {self.num_samples, self.num_samples + self.hop} :
    Analysis([i \in 1..n |-> i])

ProcessProcess == \E X \in ProcessInputs(self) \cup {NoneArr} : Process(X)

NextProcess ==
  /\ steps < MaxProcessCalls
  /\ (ProcessSetFilter \/ ProcessAnalysis \/ ProcessProcess)

SpecProcess == InitProcess /\ [][NextProcess]_vars

\* the frames that a process call multiplies: the data passed in, else the
\* frames the engine holds
process_input(s, X) == IF X.isNone THEN s.X ELSE X

\* C18: a process call that returns on an engine whose filter H is set leaves
\* in X, for every frame f of the data it was given (or of the frames it
\* held), the bin-wise product of that frame and H, whatever the frame count
\* of the call before.
C18_FilterAppliedPerFrame ==
  (ret.op = "process" /\ ~pre.H.isNone /\ ret.exc = "none") =>
    LET Xin == process_input(pre, ret.arg)
    IN  /\ self.H = pre.H
        /\ self.X.isNone = Xin.isNone
        /\ Len(self.X.frames) = Len(Xin.frames)
        /\ \A f \in 1..Len(Xin.frames) :
             self.X.frames[f] = SpecMul(Xin.frames[f], pre.H.frames[1])

----------------------------------------------------------------------------
(* SpecOverlap: frames handed to synthesis, one or several per call, on     *)
(* engines in the three regimes of nfft - H against H                       *)

\* <<N, hop>>: nfft - H is 0, less than H, H, more than H; then the two
\* engines whose one-sample buffers np.squeeze makes 0-d
OverlapGeometries ==
  {<<3, 3>>, <<5, 3>>, <<4, 2>>, <<6, 2>>, <<3, 2>>, <<4, 1>>}

\* the frames handed in: the i-th sample of a frame is a multiple of i
OverlapFrames(nfft) == {[i \in 1..nfft |-> a * i] : a \in {1, 7}}

\* frequency data of one frame, or of F >= 2 frames
OverlapInputs(s) ==
  {Arr(<<s.nbin>>, <<x>>) : x \in OverlapFrames(s.nfft)}
  \cup UNION {{Arr(<<F, s.nbin>>, fr) : fr \in SeqsOf(OverlapFrames(s.nfft), F)} :
                F \in 2..MaxOverlapFrames}

InitOverlap ==
  \E g \in OverlapGeometries, streaming \in BOOLEAN :
    Constructed(g[1], g[2], None, None, streaming, <<>>)

\* synthesis(X); Xhist collects the frames that went through the inverse
\* transform, yout the samples returned
OverlapSynthesis ==
  \E X \in OverlapInputs(self) :
    LET r == synthesis(self, X)
    IN  /\ Returned(r, "synthesis", X)
        /\ IF r.exc = "none"
             THEN /\ yout' = yout \o r.val
                  /\ Xhist' = Xhist \o [f \in 1..Len(X.frames) |->
                                          dft_synthesis(self.dft, X.frames[f])]
             ELSE UNCHANGED <<yout, Xhist>>
        /\ UNCHANGED <<filt, xin, held>>

NextOverlap ==
  /\ steps < MaxOverlapCalls
  /\ OverlapSynthesis

SpecOverlap == InitOverlap /\ [][NextOverlap]_vars

\* the sum over the frames f = 1..n of x of their sample (j - f) * H + i,
\* where that is a sample 1..nfft of the frame
overlap_sum(x, n, j, i, H, nfft) ==
  SumTo([f \in 1..n |->
           LET k == (j - f) * H + i
           IN  IF k >= 1 /\ k <= nfft THEN x[f][k] ELSE 0], n)

\* C19: from the zero state, after any number n of frames went through the
\* reconstructor in any grouping into calls, sample i of emitted block j is
\* the sum of the samples (j - f) * H + i of the frames f <= j that have one,
\* and y_p[i] is the sum of the samples (n + 1 - f) * H + i of the frames
\* f <= n that have one; n blocks of H samples were emitted.
C19_OverlapAdd ==
  LET n == Len(Xhist)
      H == self.hop
  IN  /\ Len(yout) = n * H
      /\ \A j \in 1..n : \A i \in 1..H :
           yout[(j - 1) * H + i] = overlap_sum(Xhist, j, j, i, H, self.nfft)
      /\ Len(self.y_p) = self.nfft - H
      /\ \A i \in 1..(self.nfft - H) :
           self.y_p[i] = overlap_sum(Xhist, n, n + 1, i, H, self.nfft)

\* three frames went through an engine whose tail state is longer than a
\* hop, in more than one call
C19_Witness ==
  /\ self.nfft - self.hop > self.hop
  /\ steps >= 2
  /\ Len(Xhist) = 3
  /\ Xhist[1] # Xhist[2]
  /\ ret.op = "synthesis" /\ ret.exc = "none"

----------------------------------------------------------------------------
(* SpecBuffer: a streaming engine without windows, zero padded or not, fed  *)
(* chunks of any length; sample number t of the stream has the value t      *)

\* <<N, hop>> with H <= N; the last has the one-sample state that np.squeeze
\* makes 0-d
BufferGeometries == {<<2, 2>>, <<4, 2>>, <<5, 3>>, <<6, 2>>, <<3, 2>>}

InitBuffer ==
  \E g \in BufferGeometries, kw \in {<<>>, <<1>>} :
    Constructed(g[1], g[2], None, None, TRUE, kw)

BufferZeroPadFront ==
  /\ ret.op = "__init__"
  /\ \E zf \in 1..MaxPad : ZeroPadFront(zf)

BufferZeroPadBack ==
  /\ ret.op \in {"__init__", "zero_pad_front"}
  /\ \E zb \in 1..MaxPad : ZeroPadBack(zb)

\* the next n samples of the stream
BufferAnalysis ==
  \E n \in 1..MaxChunk : Analysis([i \in 1..n |-> Len(xin) + i])

\* the client stops at the first exception
NextBuffer ==
  /\ steps < MaxBufferCalls
  /\ ret.exc = "none"
  /\ (BufferZeroPadFront \/ BufferZeroPadBack \/ BufferAnalysis)

SpecBuffer == InitBuffer /\ [][NextBuffer]_vars

\* the n samples of the stream x that end with sample number t, zeros
\* standing for the samples before its start
recent(x, t, n) ==
  [i \in 1..n |-> IF t - n + i >= 1 THEN x[t - n + i] ELSE 0]

\* the active window of the input buffer, and what lies outside it
active_window(s) == Slice(s.fft_in_buffer, s.zf, s.zf + s.num_samples)

padding_regions(s) ==
  Slice(s.fft_in_buffer, 0, s.zf)
    \o Slice(s.fft_in_buffer, s.zf + s.num_samples, s.nfft)

\* every frame handed to the transform so far was zf zeros, the most recent
\* N samples of the stream at that moment, zb zeros
frames_handed_over(s) ==
  /\ Len(Xhist) * s.hop = Len(xin)
  /\ \A f \in 1..Len(Xhist) :
       Xhist[f] = Zeros(s.zf) \o recent(xin, f * s.hop, s.num_samples)
                    \o Zeros(s.zb)

----------------------------------------------------------------------------
(* The order of the buffer updates within a hop                             *)

\* C21: on a streaming engine, after analysis calls that returned, x_p and
\* the carried-state region of the input buffer both hold the most recent
\* N - H samples of the stream (zeros before its start), and every frame
\* handed to the transform held the N most recent samples of its moment: the
\* snapshot x_p was taken after the new hop was written, and the state region
\* was overwritten only after the transform.  A call of one hop ends after
\* that hop, so every hop boundary is a state of SpecBuffer.
C21_StateCarryOrdering ==
  ret.exc = "none" =>
    /\ self.x_p = recent(xin, Len(xin), self.n_state)
    /\ fft_in_state(self) = recent(xin, Len(xin), self.n_state)
    /\ \A f \in 1..Len(Xhist) :
         /\ Slice(Xhist[f], self.zf, self.zf + self.n_state)
              = recent(xin, (f - 1) * self.hop, self.n_state)
         /\ Slice(Xhist[f], self.zf + self.n_state, self.zf + self.num_samples)
              = recent(xin, f * self.hop, self.hop)

\* three hops went through an engine whose carried state is longer than a
\* hop, so that x_p holds samples of two hops
C21_Witness ==
  /\ ret.op = "analysis" /\ ret.exc = "none"
  /\ self.n_state > self.hop
  /\ Len(xin) = 3 * self.hop
  /\ self.x_p = <<3, 4, 5, 6>>

----------------------------------------------------------------------------
(* set_filter calls that raise                                              *)

MaxAtomicCalls == 3

\* the frame length an engine has once the padding arguments are applied
padded_nfft(s, zb, zf) ==
  s.num_samples + (IF zb = None THEN s.zb ELSE zb[1])
                + (IF zf = None THEN s.zf ELSE zf[1])

\* frequency-domain coefficients of `bins` bins: the spectrum of the
\* two-tap filter [1, 1] taken at frame length nfft
FreqCoeff(bins, nfft) ==
  [len |-> bins, data |-> [i \in 1..nfft |-> IF i <= 2 THEN 1 ELSE 0]]

\* padding arguments that keep the bin count of each frame length distinct,
\* so that spectra of different frame lengths never have the same shape
AtomicPads == {None, <<2>>}

InitAtomic ==
  \E streaming \in BOOLEAN, kw \in {<<>>, <<2>>} :
    Constructed(4, 2, None, None, streaming, kw)

AtomicSetFilter ==
  \E h \in ProcessCoeffs, zb \in AtomicPads, zf \in AtomicPads :
    SetFilter(TimeCoeff(h), zb, zf, FALSE)

AtomicSetFilterFreq ==
  \E bins \in 3..4, zb \in AtomicPads, zf \in AtomicPads :
    SetFilter(FreqCoeff(bins, padded_nfft(self, zb, zf)), zb, zf, TRUE)

AtomicAnalysis == Analysis([i \in 1..self.num_samples |-> i])

AtomicProcess == Process(NoneArr)

NextAtomic ==
  /\ steps < MaxAtomicCalls
  /\ (AtomicSetFilter \/ AtomicSetFilterFreq \/ AtomicAnalysis \/ AtomicProcess)

SpecAtomic == InitAtomic /\ [][NextAtomic]_vars

\* C22: a set_filter call that raises leaves the filter spectrum H and
\* H_multi, the padding (zf, zb, nfft, nbin), the windows and the buffers of
\* the engine as they were before the call.
C22_FailedSetFilterAtomic ==
  (ret.op = "set_filter" /\ ret.exc # "none") =>
    /\ self.H = pre.H /\ self.H_multi = pre.H_multi
    /\ self.zf = pre.zf /\ self.zb = pre.zb
    /\ self.nfft = pre.nfft /\ self.nbin = pre.nbin
    /\ self.analysis_window = pre.analysis_window
    /\ self.synthesis_window = pre.synthesis_window
    /\ self.fft_in_buffer = pre.fft_in_buffer /\ self.x_p = pre.x_p
    /\ self.y_p = pre.y_p /\ self.out = pre.out /\ self.X = pre.X

----------------------------------------------------------------------------
(* The filter and the frame length                                          *)

\* C23: in every state reached by set_filter, zero_pad_front and
\* zero_pad_back calls, a filter that is set has a spectrum H of nbin bins
\* taken at the current frame length nfft, and on an engine with a fixed
\* frame count H_multi holds that H once per frame.
C23_FilterBinConsistency ==
  ~self.H.isNone =>
    /\ self.H.shape = <<self.nbin>>
    /\ \A f \in 1..Len(self.H.frames) : Len(self.H.frames[f]) = self.nfft
    /\ self.fixed_input => self.H_multi = tile(self.H, self.num_frames)

----------------------------------------------------------------------------
(* Returned arrays kept by the caller                                       *)

MaxHeldCalls == 4

\* A kept result is a reference: `returned` is the value the array had when
\* the call returned, `now` the value the caller reads through it, and `live`
\* tells whether it is still the engine's own buffer (X or out).
Kept(kind, value) ==
  [kind |-> kind, returned |-> value, now |-> value, live |-> TRUE]

\* what the kept references show after a call: references to the engine's
\* buffers follow the buffers; with `fresh_X` the call has bound self.X to a
\* new array and earlier references to X keep the old one
seen_after(h, s, fresh_X) ==
  [i \in 1..Len(h) |->
     IF ~h[i].live THEN h[i]
     ELSE IF h[i].kind = "out" THEN [h[i] EXCEPT !.now = s.out]
     ELSE IF fresh_X THEN [h[i] EXCEPT !.live = FALSE]
     ELSE [h[i] EXCEPT !.now = s.X]]

InitHeld ==
  \E streaming \in BOOLEAN, kw \in {<<>>, <<1>>, <<2>>} :
    Constructed(4, 2, None, None, streaming, kw)

\* a one-tap filter needs no zero padding, so no buffer is reallocated
HeldSetFilter ==
  /\ steps = 0
  /\ SetFilter(TimeCoeff(<<2>>), None, None, FALSE)

\* X = s.analysis(x), kept: analysis returns self.X, which it has allocated
\* anew unless the frame count is fixed
HeldAnalysis ==
  \E n \in {self.hop, self.num_samples, self.num_samples + self.hop}, a \in {1, 3} :
    LET x == [i \in 1..n |-> a * i]
        r == analysis(self, x)
    IN  /\ r.exc = "none"
        /\ Returned(r, "analysis", x)
        /\ held' = Append(seen_after(held, r.self, ~self.fixed_input),
                          Kept("X", r.self.X))
        /\ UNCHANGED <<filt, xin, Xhist, yout>>

\* s.process(): multiplies self.X in place
HeldProcess ==
  LET r == process(self, NoneArr)
  IN  /\ Returned(r, "process", NoneArr)
      /\ held' = seen_after(held, r.self, FALSE)
      /\ UNCHANGED <<filt, xin, Xhist, yout>>

\* y = s.synthesis(), kept when it is the block of a single frame, which is
\* self.out itself; several frames are returned in a new array
HeldSynthesis ==
  LET r == synthesis(self, NoneArr)
      h == seen_after(held, r.self, FALSE)
  IN  /\ r.exc = "none"
      /\ Returned(r, "synthesis", NoneArr)
      /\ held' = IF self.num_frames = 1 THEN Append(h, Kept("out", r.self.out))
                 ELSE h
      /\ UNCHANGED <<filt, xin, Xhist, yout>>

NextHeld ==
  /\ steps < MaxHeldCalls
  /\ (HeldSetFilter \/ HeldAnalysis \/ HeldProcess \/ HeldSynthesis)

SpecHeld == InitHeld /\ [][NextHeld]_vars

\* C24: every array returned by an analysis call or by a single-frame
\* synthesis call reads, after any later analysis, process or synthesis call,
\* as it did when it was returned.
C24_ReturnedResultsStable ==
  \A i \in 1..Len(held) : held[i].now = held[i].returned

====
